---- MODULE Spec2Model ----
(***************************************************************************)
(* Student Portal signup form: the field validators, the error display     *)
(* primitives, the form aggregator, the lifecycle helpers and the event    *)
(* listeners of validation.js, as a state machine over the DOM state the   *)
(* script reads and writes.                                                *)
(*                                                                         *)
(* A text value is a sequence of one-character strings.  Time is counted   *)
(* in milliseconds; a pending setTimeout callback is a record holding the  *)
(* time that remains before it runs.  Handlers run to completion, one at a *)
(* time (the browser's event loop), so each handler is one action.         *)
(***************************************************************************)
EXTENDS Integers, Sequences, FiniteSets, Bags, TLC

\* The five fields, named by the id of their input element.
Fields == {"fullName", "email", "password", "confirmPassword", "phone"}

----------------------------------------------------------------------------
(* Text helpers: String.prototype.trim, String.prototype.includes and the  *)
(* two regular expressions.                                                *)

\* The whitespace of the modelled alphabet (what trim strips and \s matches).
Whitespace == {" "}

\* The decimal digits (what \d matches).
Digits == {"0", "1", "2", "3", "4", "5", "6", "7", "8", "9"}

RECURSIVE TrimStart(_)
TrimStart(s) ==
    IF s # <<>> /\ Head(s) \in Whitespace THEN TrimStart(Tail(s)) ELSE s

RECURSIVE TrimEnd(_)
TrimEnd(s) ==
    IF s # <<>> /\ s[Len(s)] \in Whitespace
    THEN TrimEnd(SubSeq(s, 1, Len(s) - 1))
    ELSE s

\* value.trim()
Trim(s) == TrimEnd(TrimStart(s))

\* s.includes(c) for a one-character c
Includes(s, c) == \E i \in 1..Len(s) : s[i] = c

\* [^\s@]+ over the whole of s
NoSpaceNoAt(s) ==
    /\ Len(s) >= 1
    /\ \A i \in 1..Len(s) : s[i] \notin Whitespace /\ s[i] # "@"

\* /^[^\s@]+@[^\s@]+\.[^\s@]+$/.test(s)
emailRegex(s) ==
    \E i \in 1..Len(s) : \E j \in 1..Len(s) :
        /\ i < j
        /\ s[i] = "@"
        /\ s[j] = "."
        /\ NoSpaceNoAt(SubSeq(s, 1, i - 1))
        /\ NoSpaceNoAt(SubSeq(s, i + 1, j - 1))
        /\ NoSpaceNoAt(SubSeq(s, j + 1, Len(s)))

\* /^\d+$/.test(s)
phoneRegex(s) ==
    /\ Len(s) >= 1
    /\ \A i \in 1..Len(s) : s[i] \in Digits

----------------------------------------------------------------------------
(* The DOM state as one record d:                                          *)
(*   d.input[f]   = [value, classList]        the input element of f       *)
(*   d.error[f]   = [textContent, classList]  the error slot of f          *)
(*   d.group[f]   = classList of input.parentElement                       *)
(*   d.successMessage = classList of the success banner                    *)
(*   d.timers     = the pending setTimeout callbacks, a bag of             *)
(*                  [kind, remaining]                                       *)

\* Mutant of showError: the slot is filled but never marked visible.
showError_noShow(d, f, message) ==
    [d EXCEPT
        !.input[f].classList = (@ \cup {"error-input"}) \ {"success-input"},
        !.error[f].textContent = message]

\* Mutant of showError: the success styling is left on the input.
showError_keepSuccess(d, f, message) ==
    [d EXCEPT
        !.input[f].classList = @ \cup {"error-input"},
        !.error[f].textContent = message,
        !.error[f].classList = @ \cup {"show"}]

\* showError(input, errorElement, message)
showError(d, f, message) ==
    [d EXCEPT
        !.input[f].classList = (@ \cup {"error-input"}) \ {"success-input"},
        !.error[f].textContent = message,
        !.error[f].classList = @ \cup {"show"}]

\* Mutant of clearError: the success styling is not added.
clearError_noSuccess(d, f) ==
    [d EXCEPT
        !.input[f].classList = @ \ {"error-input"},
        !.error[f].textContent = "",
        !.error[f].classList = @ \ {"show"}]

\* clearError(input, errorElement)
clearError(d, f) ==
    [d EXCEPT
        !.input[f].classList = (@ \ {"error-input"}) \cup {"success-input"},
        !.error[f].textContent = "",
        !.error[f].classList = @ \ {"show"}]

\* showError(...); group.classList.add('error'); return false;
Fail(d, f, message) ==
    [d |-> [showError(d, f, message) EXCEPT !.group[f] = @ \cup {"error"}],
     ret |-> FALSE]

\* clearError(...); group.classList.remove('error'); return true;
Pass(d, f) ==
    [d |-> [clearError(d, f) EXCEPT !.group[f] = @ \ {"error"}],
     ret |-> TRUE]

\* Mutant of validateFullName: the value is not trimmed.
validateFullName_noTrim(d) ==
    LET fullName == d.input["fullName"].value IN
    IF fullName = <<>>
    THEN Fail(d, "fullName", "Full name is required")
    ELSE IF Len(fullName) < 3
    THEN Fail(d, "fullName", "Full name must be at least 3 characters")
    ELSE Pass(d, "fullName")

validateFullName(d) ==
    LET fullName == Trim(d.input["fullName"].value) IN
    IF fullName = <<>>
    THEN Fail(d, "fullName", "Full name is required")
    ELSE IF Len(fullName) < 3
    THEN Fail(d, "fullName", "Full name must be at least 3 characters")
    ELSE Pass(d, "fullName")

\* Mutant of validateEmail: the '.' rule is checked before the '@' rule.
validateEmail_dotFirst(d) ==
    LET email == Trim(d.input["email"].value) IN
    IF email = <<>>
    THEN Fail(d, "email", "Email is required")
    ELSE IF ~Includes(email, ".")
    THEN Fail(d, "email", "Email must contain a domain (.)")
    ELSE IF ~Includes(email, "@")
    THEN Fail(d, "email", "Email must contain @ symbol")
    ELSE IF ~emailRegex(email)
    THEN Fail(d, "email", "Please enter a valid email format")
    ELSE Pass(d, "email")

validateEmail(d) ==
    LET email == Trim(d.input["email"].value) IN
    IF email = <<>>
    THEN Fail(d, "email", "Email is required")
    ELSE IF ~Includes(email, "@")
    THEN Fail(d, "email", "Email must contain @ symbol")
    ELSE IF ~Includes(email, ".")
    THEN Fail(d, "email", "Email must contain a domain (.)")
    ELSE IF ~emailRegex(email)
    THEN Fail(d, "email", "Please enter a valid email format")
    ELSE Pass(d, "email")

validatePassword(d) ==
    LET password == d.input["password"].value IN
    IF password = <<>>
    THEN Fail(d, "password", "Password is required")
    ELSE IF Len(password) < 6
    THEN Fail(d, "password", "Password must be at least 6 characters")
    ELSE Pass(d, "password")

\* Mutant of validateConfirmPassword: the two values are trimmed, like the
\* values of the other fields, before they are compared.
validateConfirmPassword_trim(d) ==
    LET password == Trim(d.input["password"].value)
        confirmPassword == Trim(d.input["confirmPassword"].value)
    IN
    IF confirmPassword = <<>>
    THEN Fail(d, "confirmPassword", "Please confirm your password")
    ELSE IF password # confirmPassword
    THEN Fail(d, "confirmPassword", "Passwords do not match")
    ELSE Pass(d, "confirmPassword")

validateConfirmPassword(d) ==
    LET password == d.input["password"].value
        confirmPassword == d.input["confirmPassword"].value
    IN
    IF confirmPassword = <<>>
    THEN Fail(d, "confirmPassword", "Please confirm your password")
    ELSE IF password # confirmPassword
    THEN Fail(d, "confirmPassword", "Passwords do not match")
    ELSE Pass(d, "confirmPassword")

\* Mutant of validatePhone: the length rule is checked before the digits
\* rule.
validatePhone_lengthFirst(d) ==
    LET phone == Trim(d.input["phone"].value) IN
    IF phone = <<>>
    THEN Fail(d, "phone", "Phone number is required")
    ELSE IF Len(phone) < 10
    THEN Fail(d, "phone", "Phone number must be at least 10 digits")
    ELSE IF ~phoneRegex(phone)
    THEN Fail(d, "phone", "Phone number must contain only digits (0-9)")
    ELSE Pass(d, "phone")

validatePhone(d) ==
    LET phone == Trim(d.input["phone"].value) IN
    IF phone = <<>>
    THEN Fail(d, "phone", "Phone number is required")
    ELSE IF ~phoneRegex(phone)
    THEN Fail(d, "phone", "Phone number must contain only digits (0-9)")
    ELSE IF Len(phone) < 10
    THEN Fail(d, "phone", "Phone number must be at least 10 digits")
    ELSE Pass(d, "phone")

\* The validator bound to field f.
Validator(f, d) ==
    CASE f = "fullName" -> validateFullName(d)
      [] f = "email" -> validateEmail(d)
      [] f = "password" -> validatePassword(d)
      [] f = "confirmPassword" -> validateConfirmPassword(d)
      [] f = "phone" -> validatePhone(d)

\* Mutant of validateForm: the validators are chained with && in place of
\* being called one by one, so the first failure stops the run.
validateForm_shortCircuit(d) ==
    LET r1 == validateFullName(d)
        r2 == IF r1.ret THEN validateEmail(r1.d) ELSE r1
        r3 == IF r2.ret THEN validatePassword(r2.d) ELSE r2
        r4 == IF r3.ret THEN validateConfirmPassword(r3.d) ELSE r3
        r5 == IF r4.ret THEN validatePhone(r4.d) ELSE r4
    IN [d |-> r5.d,
        ret |-> r5.ret,
        rets |-> [f \in Fields |->
                    CASE f = "fullName" -> r1.ret
                      [] f = "email" -> r2.ret
                      [] f = "password" -> r3.ret
                      [] f = "confirmPassword" -> r4.ret
                      [] f = "phone" -> r5.ret]]

\* validateForm(): the five validators in source order, each on the DOM the
\* previous one left; rets[f] is the value the validator of f returned.
validateForm(d) ==
    LET r1 == validateFullName(d)
        r2 == validateEmail(r1.d)
        r3 == validatePassword(r2.d)
        r4 == validateConfirmPassword(r3.d)
        r5 == validatePhone(r4.d)
    IN [d |-> r5.d,
        ret |-> r1.ret /\ r2.ret /\ r3.ret /\ r4.ret /\ r5.ret,
        rets |-> [f \in Fields |->
                    CASE f = "fullName" -> r1.ret
                      [] f = "email" -> r2.ret
                      [] f = "password" -> r3.ret
                      [] f = "confirmPassword" -> r4.ret
                      [] f = "phone" -> r5.ret]]

\* Mutant of resetForm: the banner is left as it is.
resetForm_keepBanner(d) ==
    [d EXCEPT
        !.input = [f \in Fields |->
                     [value |-> <<>>,
                      classList |-> d.input[f].classList
                                      \ {"error-input", "success-input"}]],
        !.group = [f \in Fields |-> d.group[f] \ {"error"}],
        !.error = [f \in Fields |->
                     [textContent |-> "",
                      classList |-> d.error[f].classList \ {"show"}]]]

\* Mutant of resetForm: signupForm.reset() is left out, the values stay.
resetForm_keepValues(d) ==
    [d EXCEPT
        !.input = [f \in Fields |->
                     [d.input[f] EXCEPT
                        !.classList = @ \ {"error-input", "success-input"}]],
        !.group = [f \in Fields |-> d.group[f] \ {"error"}],
        !.error = [f \in Fields |->
                     [textContent |-> "",
                      classList |-> d.error[f].classList \ {"show"}]],
        !.successMessage = @ \ {"show"}]

\* Mutant of resetForm: the containers keep their error flag.
resetForm_keepGroup(d) ==
    [d EXCEPT
        !.input = [f \in Fields |->
                     [value |-> <<>>,
                      classList |-> d.input[f].classList
                                      \ {"error-input", "success-input"}]],
        !.error = [f \in Fields |->
                     [textContent |-> "",
                      classList |-> d.error[f].classList \ {"show"}]],
        !.successMessage = @ \ {"show"}]

\* resetForm(): signupForm.reset() puts every input back to its default
\* value (the empty text), then classes and error slots are cleared and the
\* banner hidden.
resetForm(d) ==
    [d EXCEPT
        !.input = [f \in Fields |->
                     [value |-> <<>>,
                      classList |-> d.input[f].classList
                                      \ {"error-input", "success-input"}]],
        !.group = [f \in Fields |-> d.group[f] \ {"error"}],
        !.error = [f \in Fields |->
                     [textContent |-> "",
                      classList |-> d.error[f].classList \ {"show"}]],
        !.successMessage = @ \ {"show"}]

\* The delays handed to setTimeout, in milliseconds.
HideDelay == 5000
ResetDelay == 2000

\* Mutant of setTimeout: the pending callbacks of the same kind are cancelled
\* first (clearTimeout on a kept handle).
setTimeout_replace(d, kind, delay) ==
    [d EXCEPT !.timers =
        [t \in {u \in BagToSet(@) : u.kind # kind} |-> CopiesIn(t, @)]
          (+) SetToBag({[kind |-> kind, remaining |-> delay]})]

\* setTimeout(callback, delay): one more pending callback.
setTimeout(d, kind, delay) ==
    [d EXCEPT !.timers = @ (+) SetToBag({[kind |-> kind, remaining |-> delay]})]

\* Mutant of showSuccessMessage: the banner is shown and no hide scheduled.
showSuccessMessage_noTimer(d) ==
    [d EXCEPT !.successMessage = @ \cup {"show"}]

\* showSuccessMessage(): show the banner and schedule its hide.
showSuccessMessage(d) ==
    setTimeout([d EXCEPT !.successMessage = @ \cup {"show"}], "hide", HideDelay)

\* Mutant of the submit listener: the result of validateForm is not
\* looked at (if (validateForm) ...), the success branch always runs.
submitListener_always(d) ==
    LET r == validateForm(d) IN
    [d |-> setTimeout(showSuccessMessage(r.d), "reset", ResetDelay),
     ret |-> TRUE, rets |-> r.rets]

\* The submit listener, after event.preventDefault().
submitListener(d) ==
    LET r == validateForm(d) IN
    IF r.ret
    THEN [d |-> setTimeout(showSuccessMessage(r.d), "reset", ResetDelay),
          ret |-> TRUE, rets |-> r.rets]
    ELSE [d |-> r.d, ret |-> FALSE, rets |-> r.rets]

\* Mutant of the confirm-password 'input' listener: the validator runs on
\* every 'input' event, the empty value included.
confirmPasswordInputListener_always(d) ==
    validateConfirmPassword(d).d

\* confirmPasswordInput 'input' listener
confirmPasswordInputListener(d) ==
    IF d.input["confirmPassword"].value # <<>>
    THEN validateConfirmPassword(d).d
    ELSE d

\* Mutant of the password 'input' listener: it clears the error of the
\* confirm-password field (the neighbouring listener's elements).
passwordInputListener_confirm(d) ==
    IF Len(d.input["password"].value) >= 6
    THEN clearError(d, "confirmPassword")
    ELSE d

\* Mutant of the password 'input' listener: the error is cleared from 5
\* characters on.
passwordInputListener_five(d) ==
    IF Len(d.input["password"].value) >= 5
    THEN clearError(d, "password")
    ELSE d

\* passwordInput 'input' listener
passwordInputListener(d) ==
    IF Len(d.input["password"].value) >= 6
    THEN clearError(d, "password")
    ELSE d

\* Mutant of the callback of the 5000ms timer: the banner is left shown.
hideCallback_keep(d) == d

\* The callback of the 5000ms timer.
hideCallback(d) == [d EXCEPT !.successMessage = @ \ {"show"}]

----------------------------------------------------------------------------
(* State *)

VARIABLES
    input,           \* input[f] = [value, classList]
    error,           \* error[f] = [textContent, classList]
    group,           \* group[f] = classList of the field's container
    successMessage,  \* classList of the success banner
    timers,          \* bag of the pending setTimeout callbacks
    elapsed,         \* history: ms since the last successful submit (-1: none
                     \*          yet; counted up to HideDelay)
    resetRan,        \* history: resetForm has run since the last successful
                     \*          submit
    verdict,         \* history: what the validator of f returned last
    confirmHistory   \* history of the confirm-password validator:
                     \*   seen:  the confirm value is the one it last saw
                     \*   stale: its last run followed a run that passed,
                     \*          with the password value changed in between
                     \*          and the confirm value left alone
\* (verdict is recorded by the actions whose name ends in H, confirmHistory
\*  by SpecPasswords; the other specifications leave them as they start.)

dom == <<input, error, group, successMessage, timers>>
vars == <<input, error, group, successMessage, timers, elapsed, resetRan,
          verdict, confirmHistory>>

Dom == [input |-> input, error |-> error, group |-> group,
        successMessage |-> successMessage, timers |-> timers]

SetDom(d) ==
    /\ input' = d.input
    /\ error' = d.error
    /\ group' = d.group
    /\ successMessage' = d.successMessage
    /\ timers' = d.timers

\* The page as loaded: empty inputs, no state classes, nothing scheduled.
NeutralInput == [f \in Fields |-> [value |-> <<>>, classList |-> {}]]
NeutralError == [f \in Fields |-> [textContent |-> "", classList |-> {}]]
NeutralGroup == [f \in Fields |-> {}]

Loaded == [input |-> NeutralInput, error |-> NeutralError,
           group |-> NeutralGroup, successMessage |-> {}, timers |-> EmptyBag]

NoHistory ==
    /\ elapsed = -1
    /\ resetRan = FALSE
    /\ verdict = [f \in Fields |-> "unset"]
    /\ confirmHistory = [seen |-> FALSE, stale |-> FALSE]

\* The DOM starts as d.
StartDom(d) ==
    /\ input = d.input
    /\ error = d.error
    /\ group = d.group
    /\ successMessage = d.successMessage
    /\ timers = d.timers

Init ==
    /\ StartDom(Loaded)
    /\ NoHistory

\* 'blur' on field f: its validator runs.
Blur(f) ==
    /\ SetDom(Validator(f, Dom).d)
    /\ UNCHANGED <<elapsed, resetRan>>

\* The DOM d once the user has edited the text of f to v.
Edited(d, f, v) == [d EXCEPT !.input[f].value = v]

\* The user edits a field that has no 'input' listener.
Input(f, v) ==
    /\ f \in {"fullName", "email", "phone"}
    /\ SetDom(Edited(Dom, f, v))
    /\ UNCHANGED <<elapsed, resetRan>>

\* The user edits confirm-password; its 'input' listener runs.
InputConfirmPassword(v) ==
    /\ SetDom(confirmPasswordInputListener(Edited(Dom, "confirmPassword", v)))
    /\ UNCHANGED <<elapsed, resetRan>>

\* The user edits password; its 'input' listener runs.
InputPassword(v) ==
    /\ SetDom(passwordInputListener(Edited(Dom, "password", v)))
    /\ UNCHANGED <<elapsed, resetRan>>

\* The number of pending callbacks of one kind.
NumPending(d, kind) ==
    LET S == {t \in BagToSet(d.timers) : t.kind = kind} IN
    BagCardinality([t \in S |-> CopiesIn(t, d.timers)])

\* 'submit' on the form.  (The guard keeps the timer list finite: at most
\* max successful submits have a timer pending; a hide timer outlives the
\* reset timer of its submit.)
Submit(max) ==
    LET r == submitListener(Dom) IN
    /\ r.ret => NumPending(Dom, "hide") < max
    /\ SetDom(r.d)
    /\ elapsed' = IF r.ret THEN 0 ELSE elapsed
    /\ resetRan' = IF r.ret THEN FALSE ELSE resetRan

\* A pending callback that is due, and the DOM with it taken off the list.
Due(t) == BagIn(t, timers) /\ t.remaining = 0
Taken(t) == [Dom EXCEPT !.timers = @ (-) SetToBag({t})]

\* The 2000ms callback of a submit runs: resetForm().
ResetTimer(t) ==
    /\ Due(t)
    /\ t.kind = "reset"
    /\ SetDom(resetForm(Taken(t)))
    /\ resetRan' = TRUE
    /\ UNCHANGED elapsed

\* The 5000ms callback of a submit runs: the banner is hidden.
HideTimer(t) ==
    /\ Due(t)
    /\ t.kind = "hide"
    /\ SetDom(hideCallback(Taken(t)))
    /\ UNCHANGED <<elapsed, resetRan>>

\* The granularity at which time passes between events.
Step == ResetDelay \div 2

Min(a, b) == IF a < b THEN a ELSE b

\* Time passes: no callback is due, and every pending one comes Step closer.
Tick ==
    /\ timers # EmptyBag
    /\ \A t \in BagToSet(timers) : t.remaining >= Step
    /\ timers' = [u \in {[t EXCEPT !.remaining = @ - Step] : t \in BagToSet(timers)}
                    |-> CopiesIn([u EXCEPT !.remaining = @ + Step], timers)]
    /\ elapsed' = IF elapsed < 0 THEN elapsed ELSE Min(elapsed + Step, HideDelay)
    /\ UNCHANGED <<input, error, group, successMessage, resetRan>>

----------------------------------------------------------------------------
(* The whole page.  Each field takes the empty text or one valid text.     *)

\* Number of successful submits whose timers may be pending at once.
MaxPending == 2

abc == <<"a", "b", "c">>
abcdef == <<"a", "b", "c", "d", "e", "f">>
abcdeg == <<"a", "b", "c", "d", "e", "g">>
aAtbDotc == <<"a", "@", "b", ".", "c">>
tenDigits == <<"1", "2", "3", "4", "5", "6", "7", "8", "9", "0">>

Values(f) ==
    CASE f = "fullName" -> {<<>>, abc}
      [] f = "email" -> {<<>>, aAtbDotc}
      [] f = "password" -> {<<>>, abcdef}
      [] f = "confirmPassword" -> {<<>>, abcdef}
      [] f = "phone" -> {<<>>, tenDigits}

\* No validator's verdict is recorded.
Unrecorded ==
    UNCHANGED <<verdict, confirmHistory>>

Next ==
    \/ \E f \in Fields : Blur(f) /\ Unrecorded
    \/ \E f \in Fields : \E v \in Values(f) : Input(f, v) /\ Unrecorded
    \/ \E v \in Values("confirmPassword") : InputConfirmPassword(v) /\ Unrecorded
    \/ \E v \in Values("password") : InputPassword(v) /\ Unrecorded
    \/ Submit(MaxPending) /\ Unrecorded
    \/ \E t \in BagToSet(timers) : ResetTimer(t) /\ Unrecorded
    \/ \E t \in BagToSet(timers) : HideTimer(t) /\ Unrecorded
    \/ Tick /\ Unrecorded

Spec == Init /\ [][Next]_vars

\* The event loop: time does not stop, and a callback that is due is run.
\* (Nothing obliges the user to blur, type or submit.)
TimePasses == Tick /\ Unrecorded
ResetFires == \E t \in BagToSet(timers) : ResetTimer(t) /\ Unrecorded
HideFires == \E t \in BagToSet(timers) : HideTimer(t) /\ Unrecorded

----------------------------------------------------------------------------
(* The same handlers, with the history of the validators' verdicts.        *)

V(ret) == IF ret THEN "pass" ELSE "fail"

BlurH(f) ==
    /\ Blur(f)
    /\ verdict' = [verdict EXCEPT ![f] = V(Validator(f, Dom).ret)]

InputH(f, v) ==
    /\ Input(f, v)
    /\ UNCHANGED verdict

InputConfirmPasswordH(v) ==
    /\ InputConfirmPassword(v)
    /\ verdict' =
         IF v # <<>>
         THEN [verdict EXCEPT !["confirmPassword"] =
                 V(validateConfirmPassword(Edited(Dom, "confirmPassword", v)).ret)]
         ELSE verdict

InputPasswordH(v) ==
    /\ InputPassword(v)
    /\ UNCHANGED verdict

SubmitH(max) ==
    /\ Submit(max)
    /\ verdict' = [f \in Fields |-> V(validateForm(Dom).rets[f])]

ResetTimerH(t) ==
    /\ ResetTimer(t)
    /\ UNCHANGED verdict

HideTimerH(t) ==
    /\ HideTimer(t)
    /\ UNCHANGED verdict

TickH ==
    /\ Tick
    /\ UNCHANGED verdict

\* Number of successful submits whose timers may be pending at once, where
\* the verdicts are recorded.
MaxPendingVerdict == 1

NextVerdict ==
    \/ \E f \in Fields : BlurH(f) /\ UNCHANGED confirmHistory
    \/ \E f \in Fields : \E v \in Values(f) :
          InputH(f, v) /\ UNCHANGED confirmHistory
    \/ \E v \in Values("confirmPassword") :
          InputConfirmPasswordH(v) /\ UNCHANGED confirmHistory
    \/ \E v \in Values("password") :
          InputPasswordH(v) /\ UNCHANGED confirmHistory
    \/ SubmitH(MaxPendingVerdict) /\ UNCHANGED confirmHistory
    \/ \E t \in BagToSet(timers) : ResetTimerH(t) /\ UNCHANGED confirmHistory
    \/ \E t \in BagToSet(timers) : HideTimerH(t) /\ UNCHANGED confirmHistory
    \/ TickH /\ UNCHANGED confirmHistory

SpecVerdict == Init /\ [][NextVerdict]_vars

----------------------------------------------------------------------------
(* The form filled in once, then checked: the user has typed a text into   *)
(* each field in form order (the 'input' listeners have run), and blur and *)
(* submit events follow.  No time passes.                                  *)

\* The DOM d once the user has edited f to v and the 'input' listener of f,
\* if it has one, has run.
Typed(d, f, v) ==
    CASE f = "confirmPassword" -> confirmPasswordInputListener(Edited(d, f, v))
      [] f = "password" -> passwordInputListener(Edited(d, f, v))
      [] OTHER -> Edited(d, f, v)

FormValues(f) ==
    CASE f = "fullName" -> {<<>>, <<" ">>, <<"a", "b">>, abc}
      [] f = "email" -> {<<>>, <<"a", "b", ".", "c">>, <<"a", "@", "b", "c">>,
                         <<"a", " ", "@", "b", ".", "c">>, aAtbDotc}
      [] f = "password" -> {<<>>, abc, abcdef}
      [] f = "confirmPassword" -> {<<>>, abcdef, abcdeg}
      [] f = "phone" -> {<<>>, <<"1", "2", "3", "4", "5">>,
                         <<"1", "2", "3", "4", "5", "a", "b", "c", "d", "e">>,
                         tenDigits}

Filled(n, e, p, c, ph) ==
    Typed(Typed(Typed(Typed(Typed(Loaded, "fullName", n), "email", e),
                      "password", p), "confirmPassword", c), "phone", ph)

InitFilled ==
    \E n \in FormValues("fullName") : \E e \in FormValues("email") :
    \E p \in FormValues("password") : \E c \in FormValues("confirmPassword") :
    \E ph \in FormValues("phone") :
        /\ StartDom(Filled(n, e, p, c, ph))
        /\ elapsed = -1
        /\ resetRan = FALSE
        /\ verdict = [f \in Fields |->
                        IF f = "confirmPassword" /\ c # <<>>
                        THEN V(c = p) ELSE "unset"]
        /\ confirmHistory = [seen |-> FALSE, stale |-> FALSE]

NextFilled ==
    \/ \E f \in Fields : BlurH(f) /\ UNCHANGED confirmHistory
    \/ SubmitH(MaxPending) /\ UNCHANGED confirmHistory

SpecFilled == InitFilled /\ [][NextFilled]_vars

----------------------------------------------------------------------------
(* The page under a user who fills in the whole form at a time, corrects   *)
(* the full name, leaves fields and submits, with the event loop running:  *)
(* time does not stop and a callback that is due is run.                   *)

\* Number of successful submits whose timers may be pending at once.
MaxOverlap == 2

\* The user types a valid text into each field, in form order.
FillIn ==
    /\ SetDom(Typed(Typed(Typed(Typed(Typed(Dom,
                 "fullName", abc), "email", aAtbDotc), "password", abcdef),
                 "confirmPassword", abcdef), "phone", tenDigits))
    /\ UNCHANGED <<elapsed, resetRan>>

NextTimers ==
    \/ FillIn /\ Unrecorded
    \/ \E v \in Values("fullName") : Input("fullName", v) /\ Unrecorded
    \/ \E f \in Fields : Blur(f) /\ Unrecorded
    \/ Submit(MaxOverlap) /\ Unrecorded
    \/ ResetFires
    \/ HideFires
    \/ TimePasses

SpecTimers ==
    /\ Init
    /\ [][NextTimers]_vars
    /\ WF_vars(TimePasses)
    /\ WF_vars(ResetFires)
    /\ WF_vars(HideFires)

----------------------------------------------------------------------------
(* The two password fields alone: the user edits and leaves password and   *)
(* confirm-password and submits; the other fields stay empty.              *)

PasswordValues ==
    {<<>>, abc, SubSeq(abcdef, 1, 5), abcdef, abcdeg, abcdef \o <<" ">>}

\* The confirm-password validator has run in this step.
Rechecked ==
    confirmHistory' =
        [seen |-> TRUE,
         stale |-> /\ verdict["confirmPassword"] = "pass"
                   /\ confirmHistory.seen
                   /\ input'["confirmPassword"].value
                        = input["confirmPassword"].value
                   /\ input'["password"].value
                        # input'["confirmPassword"].value]

BlurPassword ==
    /\ BlurH("password")
    /\ UNCHANGED confirmHistory

BlurConfirmPassword ==
    /\ BlurH("confirmPassword")
    /\ Rechecked

TypePassword(v) ==
    /\ InputPasswordH(v)
    /\ UNCHANGED confirmHistory

TypeConfirmPassword(v) ==
    /\ InputConfirmPasswordH(v)
    /\ IF v # <<>>
       THEN Rechecked
       ELSE confirmHistory' =
              [confirmHistory EXCEPT
                  !.seen = @ /\ v = input["confirmPassword"].value]

SubmitPasswords ==
    /\ SubmitH(MaxPending)
    /\ Rechecked

NextPasswords ==
    \/ BlurPassword
    \/ BlurConfirmPassword
    \/ \E v \in PasswordValues : TypePassword(v)
    \/ \E v \in PasswordValues : TypeConfirmPassword(v)
    \/ SubmitPasswords

SpecPasswords == Init /\ [][NextPasswords]_vars

----------------------------------------------------------------------------
(* The email validator on its own: the user has entered some text into the *)
(* email field (it has no 'input' listener) and leaves the field.          *)

\* Longest email text entered.
MaxEmailLen == 6

EmailAlphabet == {"a", "@", ".", " "}

\* Every text over alphabet A of length at most n.
Texts(A, n) == UNION {[1..k -> A] : k \in 0..n}

EmailValues ==
    Texts(EmailAlphabet, MaxEmailLen) \cup FormValues("email")

InitEmail ==
    \E v \in EmailValues :
        /\ StartDom(Typed(Loaded, "email", v))
        /\ NoHistory

BlurEmail ==
    /\ BlurH("email")
    /\ UNCHANGED confirmHistory

SpecEmail == InitEmail /\ [][BlurEmail]_vars

----------------------------------------------------------------------------
(* The phone validator on its own: the user has entered some text into the *)
(* phone field (it has no 'input' listener) and leaves the field.          *)

\* Longest run of digits entered, and longest text entered of those that
\* are enumerated in full.
MaxPhoneLen == 11
MaxShortLen == 5

PhoneAlphabet == {"1", "a", " "}

\* n times the digit 1.
Ones(n) == [i \in 1..n |-> "1"]

\* A run of digits, with at most one character of it replaced by a letter
\* or a space.
NearDigits(n) ==
    {Ones(k) : k \in 0..n}
      \cup UNION {{[Ones(k) EXCEPT ![i] = c] : i \in 1..k, c \in {"a", " "}} :
                     k \in 1..n}

\* The same with whitespace around.
Padded(S) ==
    {l \o t \o r : l \in {<<>>, <<" ">>}, t \in S, r \in {<<>>, <<" ">>}}

PhoneValues ==
    Texts(PhoneAlphabet, MaxShortLen)
      \cup Padded(NearDigits(MaxPhoneLen))
      \cup FormValues("phone")

InitPhone ==
    \E v \in PhoneValues :
        /\ StartDom(Typed(Loaded, "phone", v))
        /\ NoHistory

BlurPhone ==
    /\ BlurH("phone")
    /\ UNCHANGED confirmHistory

SpecPhone == InitPhone /\ [][BlurPhone]_vars

----------------------------------------------------------------------------
(* The full-name validator on its own: the user has entered some text into *)
(* the full-name field (it has no 'input' listener) and leaves the field.  *)

\* Longest full name entered.
MaxNameLen == 6

NameAlphabet == {"a", " "}

NameValues ==
    Texts(NameAlphabet, MaxNameLen) \cup FormValues("fullName")

InitName ==
    \E v \in NameValues :
        /\ StartDom(Typed(Loaded, "fullName", v))
        /\ NoHistory

BlurName ==
    /\ BlurH("fullName")
    /\ UNCHANGED confirmHistory

SpecName == InitName /\ [][BlurName]_vars

----------------------------------------------------------------------------
(* What is displayed, read off the current state.                          *)

SlotNonEmpty(f) == error[f].textContent # ""
SlotShown(f) == "show" \in error[f].classList
ErrorStyled(f) == "error-input" \in input[f].classList
SuccessStyled(f) == "success-input" \in input[f].classList
GroupError(f) == "error" \in group[f]
BannerVisible == "show" \in successMessage
Errored(f) == SlotNonEmpty(f) /\ ErrorStyled(f)

\* The same, of a DOM record d.
ErroredIn(d, f) ==
    /\ d.error[f].textContent # ""
    /\ "error-input" \in d.input[f].classList
BannerVisibleIn(d) == "show" \in d.successMessage

\* Every field and the banner as the page loads them.
Neutral(d) ==
    /\ d.input = NeutralInput
    /\ d.error = NeutralError
    /\ d.group = NeutralGroup
    /\ d.successMessage = {}

\* f's current value passes f's validator.
Passes(f) == Validator(f, Dom).ret

ResetCallback == [kind |-> "reset", remaining |-> ResetDelay]
HideCallback == [kind |-> "hide", remaining |-> HideDelay]

----------------------------------------------------------------------------
(* Claims *)

\* C1: on every submit event the banner is made visible and the 2000ms
\* reset (with the 5000ms hide) is scheduled if and only if all five current
\* values pass their validators; a submit on which a field fails leaves the
\* banner as it was, schedules nothing, leaves the values unchanged and
\* leaves the error of every failing field displayed.
C1_SubmitGate ==
    [][Submit(MaxPending) =>
        IF \A f \in Fields : Passes(f)
        THEN /\ BannerVisible'
             /\ timers' = timers (+) SetToBag({ResetCallback, HideCallback})
        ELSE /\ successMessage' = successMessage
             /\ timers' = timers
             /\ \A f \in Fields : input'[f].value = input[f].value
             /\ \A f \in Fields : ~Passes(f) => Errored(f)'
      ]_vars

\* C1 witness: a submit has just succeeded (banner up, both callbacks
\* scheduled with their full delay) while an earlier submit is still pending.
C1_Witness ==
    /\ elapsed = 0
    /\ BannerVisible
    /\ CopiesIn(ResetCallback, timers) = 1
    /\ CopiesIn(HideCallback, timers) = 1
    /\ BagCardinality(timers) > 2

\* The 'required' message of each field.
RequiredMessage(f) ==
    CASE f = "fullName" -> "Full name is required"
      [] f = "email" -> "Email is required"
      [] f = "password" -> "Password is required"
      [] f = "confirmPassword" -> "Please confirm your password"
      [] f = "phone" -> "Phone number is required"

\* C2: validateForm runs the five validators whatever the earlier ones
\* returned and returns true iff all five did: in the DOM it leaves, every
\* field whose value is invalid shows its error and every field whose value
\* is valid shows none; with all five values empty it returns false and
\* every slot holds the 'required' message of its field.
C2_ValidateFormAll ==
    LET r == validateForm(Dom) IN
    /\ r.ret = (\A f \in Fields : Passes(f))
    /\ \A f \in Fields :
        /\ r.rets[f] = Passes(f)
        /\ ~Passes(f) => /\ ErroredIn(r.d, f)
                         /\ "show" \in r.d.error[f].classList
                         /\ r.d.error[f] = Validator(f, Dom).d.error[f]
        /\ Passes(f) => /\ r.d.error[f].textContent = ""
                        /\ "show" \notin r.d.error[f].classList
                        /\ "error-input" \notin r.d.input[f].classList
    /\ (\A f \in Fields : input[f].value = <<>>)
         => /\ ~r.ret
            /\ \A f \in Fields : r.d.error[f].textContent = RequiredMessage(f)

\* C2 witness: validateForm has run (in a submit) on a form whose five
\* values are empty, and the five slots hold the 'required' messages.
C2_Witness ==
    /\ \A f \in Fields : input[f].value = <<>>
    /\ \A f \in Fields : verdict[f] = "fail"
    /\ \A f \in Fields : error[f].textContent = RequiredMessage(f)
    /\ \A f \in Fields : SlotShown(f)

\* C3: for every field the error slot is non-empty iff the input carries
\* error-input iff the slot carries show.
C3_SlotStylingShow ==
    \A f \in Fields :
        /\ SlotNonEmpty(f) <=> ErrorStyled(f)
        /\ ErrorStyled(f) <=> SlotShown(f)

\* C3 witness: after a reset has run, one field shows an error again and
\* another has been cleared by its validator.
C3_Witness ==
    /\ resetRan
    /\ SlotNonEmpty("email") /\ ErrorStyled("email") /\ SlotShown("email")
    /\ SuccessStyled("phone") /\ ~SlotShown("phone")

\* C5: no input carries error-input and success-input at the same time.
C5_OneStyling ==
    \A f \in Fields : ~(ErrorStyled(f) /\ SuccessStyled(f))

\* C5 witness: a field was first cleared (the submit succeeded, so it had
\* success styling) and now carries the error styling instead.
C5_Witness ==
    /\ BannerVisible
    /\ ErrorStyled("fullName") /\ ~SuccessStyled("fullName")
    /\ SuccessStyled("email")

\* C6: while the banner is visible, a successful submit happened less than
\* 5000ms ago and resetForm has not run since; so it is not visible before
\* the first successful submit nor after a reset without a new one.
C6_BannerWindow ==
    BannerVisible => /\ 0 <= elapsed
                     /\ elapsed < HideDelay
                     /\ ~resetRan

\* C6 witness: the banner is still visible 2000ms after the submit, the
\* reset callback being due.
C6_Witness ==
    /\ BannerVisible
    /\ elapsed = ResetDelay
    /\ BagIn([kind |-> "reset", remaining |-> 0], timers)

\* C8: resetForm from any reachable state gives the one neutral state
\* (values empty, no error/success styling, no container flag, slots empty
\* and hidden, banner hidden), and a second call changes nothing more.
C8_ResetNeutral ==
    /\ Neutral(resetForm(Dom))
    /\ resetForm(Dom).timers = timers
    /\ resetForm(resetForm(Dom)) = resetForm(Dom)

\* C8 witness: resetForm has just run and left the neutral state, and a
\* second reset callback is due right after it.
C8_Witness ==
    /\ resetRan
    /\ Neutral(Dom)
    /\ BagIn([kind |-> "reset", remaining |-> 0], timers)

\* C4 as claimed: in every reachable state a field is displayed as errored
\* iff the verdict its validator returned last was fail.
C4_Original ==
    \A f \in Fields : Errored(f) <=> verdict[f] = "fail"

\* C4 amended: a field displayed as errored has fail as the last verdict of
\* its validator; a field whose last verdict is fail stops being displayed
\* as errored only when resetForm runs or, for password, when an 'input'
\* event leaves a value of length >= 6 (neither runs the validator).
C4_ErroredIffFailUnlessCleared ==
    [][\A f \in Fields :
          /\ Errored(f)' => verdict'[f] = "fail"
          /\ (/\ verdict'[f] = "fail"
              /\ ~Errored(f)'
              /\ (Errored(f) \/ verdict[f] # "fail"))
             => \/ \E t \in BagToSet(timers) : ResetTimerH(t)
                \/ /\ f = "password"
                   /\ \E v \in Values("password") :
                        Len(v) >= 6 /\ InputPasswordH(v)
      ]_vars

\* C4 witness: the password validator returned fail, then an 'input' event
\* with 6 characters cleared the error without a new verdict.
C4_Witness ==
    /\ verdict["password"] = "fail"
    /\ ~Errored("password")
    /\ SuccessStyled("password")
    /\ Len(input["password"].value) >= 6

\* C7: a submit with all five fields valid shows the banner at once; when
\* a 2000ms reset callback runs, the state it leaves is the neutral one
\* (banner hidden) and the 5000ms hide callback of the same submit is still
\* pending, 3000ms from running; and that hide callback, when no successful
\* submit has occurred in the 5000ms before it runs, changes nothing.
C7_SuccessThenReset ==
    [][/\ (Submit(MaxPending) /\ \A f \in Fields : Passes(f)) => BannerVisible'
       /\ (\E t \in BagToSet(timers) : ResetTimer(t))
            => /\ Neutral(Dom)'
               /\ BagIn([kind |-> "hide", remaining |-> HideDelay - ResetDelay],
                        timers')
       /\ (elapsed = HideDelay /\ \E t \in BagToSet(timers) : HideTimer(t))
            => UNCHANGED <<input, error, group, successMessage>>
      ]_vars

\* C7 witness: 5000ms after a successful submit both of its callbacks have
\* run and the page is neutral.
C7_Witness ==
    /\ elapsed = HideDelay
    /\ resetRan
    /\ timers = EmptyBag
    /\ Neutral(Dom)

\* C9: every run of validateConfirmPassword (blur, 'input' with a
\* non-empty value, submit) returns true iff the confirm value is non-empty
\* and equal, character for character and untrimmed, to the password value;
\* a run that follows a passing one, with the password value changed in
\* between and the confirm value left alone, returns false with
\* "Passwords do not match".
C9_ConfirmMatchesPassword ==
    [][(\/ BlurConfirmPassword
        \/ \E v \in PasswordValues \ {<<>>} : TypeConfirmPassword(v)
        \/ SubmitPasswords)
       => /\ (verdict'["confirmPassword"] = "pass")
               <=> /\ input'["confirmPassword"].value # <<>>
                   /\ input'["confirmPassword"].value = input'["password"].value
          /\ (verdict'["confirmPassword"] = "pass")
               <=> ~Errored("confirmPassword")'
          /\ confirmHistory'.stale
               => /\ verdict'["confirmPassword"] = "fail"
                  /\ error'["confirmPassword"].textContent
                       = "Passwords do not match"
      ]_vars

\* C9 witness: the confirmation passed, the password was then changed, and
\* the next run of the confirm-password validator reported the mismatch.
C9_Witness ==
    /\ confirmHistory.stale
    /\ verdict["confirmPassword"] = "fail"
    /\ error["confirmPassword"].textContent = "Passwords do not match"
    /\ input["confirmPassword"].value = abcdef
    /\ input["password"].value = abcdef \o <<" ">>

\* The pattern ^[^\s@]+@[^\s@]+\.[^\s@]+$ read as a description of the
\* text: no whitespace, exactly one '@', something before it, and after it a
\* '.' that is neither the first nor the last character of that part.
EmailPattern(t) ==
    /\ \A i \in 1..Len(t) : t[i] \notin Whitespace
    /\ Cardinality({i \in 1..Len(t) : t[i] = "@"}) = 1
    /\ LET at == CHOOSE i \in 1..Len(t) : t[i] = "@" IN
        /\ at > 1
        /\ \E j \in (at + 2)..(Len(t) - 1) : t[j] = "."

\* The message of the first email rule that t fails, "" if it fails none.
FirstFailingEmailRule(t) ==
    IF t = <<>> THEN "Email is required"
    ELSE IF \A i \in 1..Len(t) : t[i] # "@" THEN "Email must contain @ symbol"
    ELSE IF \A i \in 1..Len(t) : t[i] # "." THEN "Email must contain a domain (.)"
    ELSE IF ~EmailPattern(t) THEN "Please enter a valid email format"
    ELSE ""

\* C10: validateEmail reports, on the trimmed value, the first failing rule
\* in the order empty, no '@', no '.', pattern mismatch, and returns true
\* iff the trimmed value matches the pattern; "a@b.c" passes, "ab.c" gets
\* the '@' message, "a@bc" the '.' message, "a @b.c" the format message.
C10_EmailRules ==
    verdict["email"] # "unset" =>
        LET v == input["email"].value
            t == Trim(v)
            msg == error["email"].textContent
        IN
        /\ msg = FirstFailingEmailRule(t)
        /\ (verdict["email"] = "pass") <=> EmailPattern(t)
        /\ (verdict["email"] = "pass") <=> ~Errored("email")
        /\ v = aAtbDotc => verdict["email"] = "pass"
        /\ v = <<"a", "b", ".", "c">> => msg = "Email must contain @ symbol"
        /\ v = <<"a", "@", "b", "c">> => msg = "Email must contain a domain (.)"
        /\ v = <<"a", " ", "@", "b", ".", "c">>
             => msg = "Please enter a valid email format"

\* C10 witness: validateEmail has run on "a @b.c", which has an '@' and a
\* '.', and reported the format rule.
C10_Witness ==
    /\ input["email"].value = <<"a", " ", "@", "b", ".", "c">>
    /\ verdict["email"] = "fail"
    /\ error["email"].textContent = "Please enter a valid email format"

\* The text t without the whitespace at its two ends, by position: the
\* characters from the first to the last that is not whitespace.
Core(t) ==
    LET S == {i \in 1..Len(t) : t[i] \notin Whitespace} IN
    IF S = {} THEN <<>>
    ELSE LET lo == CHOOSE i \in S : \A j \in S : i <= j
             hi == CHOOSE i \in S : \A j \in S : j <= i
         IN SubSeq(t, lo, hi)

\* The message of the first phone rule that t fails, "" if it fails none.
FirstFailingPhoneRule(t) ==
    IF t = <<>> THEN "Phone number is required"
    ELSE IF \E i \in 1..Len(t) : t[i] \notin Digits
    THEN "Phone number must contain only digits (0-9)"
    ELSE IF Len(t) < 10 THEN "Phone number must be at least 10 digits"
    ELSE ""

\* C11: validatePhone returns true iff the trimmed value consists only of
\* digits and has at least 10 of them; the digits rule comes before the
\* length rule (short and non-numeric gets the digits message, short and
\* all digits the length message, empty the 'required' message); "12345"
\* and "12345abcde" fail, "1234567890" passes.
C11_PhoneRules ==
    verdict["phone"] # "unset" =>
        LET v == input["phone"].value
            t == Core(v)
            msg == error["phone"].textContent
        IN
        /\ (verdict["phone"] = "pass")
             <=> /\ \A i \in 1..Len(t) : t[i] \in Digits
                 /\ Len(t) >= 10
        /\ (verdict["phone"] = "pass") <=> ~Errored("phone")
        /\ msg = FirstFailingPhoneRule(t)
        /\ v = <<"1", "2", "3", "4", "5">>
             => msg = "Phone number must be at least 10 digits"
        /\ v = <<"1", "2", "3", "4", "5", "a", "b", "c", "d", "e">>
             => msg = "Phone number must contain only digits (0-9)"
        /\ v = tenDigits => verdict["phone"] = "pass"

\* C11 witness: validatePhone has run on " 1a1", short and non-numeric
\* once trimmed, and reported the digits rule.
C11_Witness ==
    /\ input["phone"].value = <<" ", "1", "a", "1">>
    /\ verdict["phone"] = "fail"
    /\ error["phone"].textContent = "Phone number must contain only digits (0-9)"

\* C12: validateFullName returns false iff the trimmed value is empty or
\* shorter than 3 characters; the full-name slot is cleared exactly when it
\* returns true, and holds "Full name is required" for an empty trimmed
\* value and "Full name must be at least 3 characters" for a short one.
C12_FullNameRules ==
    verdict["fullName"] # "unset" =>
        LET t == Core(input["fullName"].value)
            msg == error["fullName"].textContent
        IN
        /\ (verdict["fullName"] = "fail") <=> (t = <<>> \/ Len(t) < 3)
        /\ (verdict["fullName"] = "pass")
             <=> (msg = "" /\ ~SlotShown("fullName") /\ ~ErrorStyled("fullName"))
        /\ verdict["fullName"] = "fail"
             => /\ msg = IF t = <<>> THEN "Full name is required"
                         ELSE "Full name must be at least 3 characters"
                /\ SlotShown("fullName")
                /\ ErrorStyled("fullName")

\* C12 witness: validateFullName has run on "a a  ", 5 characters long and
\* 3 once trimmed, and passed.
C12_Witness ==
    /\ input["fullName"].value = <<"a", " ", "a", " ", " ">>
    /\ verdict["fullName"] = "pass"
    /\ error["fullName"].textContent = ""
    /\ SuccessStyled("fullName")

\* The input of f carries error or success styling / carries neither.
Evaluated(f) == ErrorStyled(f) \/ SuccessStyled(f)
Untouched(f) == ~ErrorStyled(f) /\ ~SuccessStyled(f)

\* C13: a field that carries error or success styling carries exactly one
\* of the two after every step that is not the reset callback (blur, input,
\* submit, hide callback, passing of time); the reset callback leaves every
\* field without either.
C13_EvaluatedUntilReset ==
    [][IF \E t \in BagToSet(timers) : ResetTimer(t)
       THEN \A f \in Fields : Untouched(f)'
       ELSE \A f \in Fields :
              Evaluated(f) => /\ Evaluated(f)'
                              /\ ~(ErrorStyled(f)' /\ SuccessStyled(f)')
      ]_vars

\* C13 witness: the submit passed every field; since then time has passed,
\* the full name was emptied and left (now errored), the other fields keep
\* their success styling, and no reset has run yet.
C13_Witness ==
    /\ elapsed = Step
    /\ ~resetRan
    /\ ErrorStyled("fullName")
    /\ \A f \in Fields \ {"fullName"} : SuccessStyled(f)

\* A submit on which all five validators pass.
SuccessfulSubmit == Submit(MaxOverlap) /\ \A f \in Fields : Passes(f)

\* Every pending callback of b is one of a, Step later.
Aged(a, b) ==
    /\ BagCardinality(a) = BagCardinality(b)
    /\ \A u \in BagToSet(b) :
         CopiesIn(u, b) = CopiesIn([u EXCEPT !.remaining = @ + Step], a)

\* C14: a successful submit adds exactly one 2000ms reset callback and one
\* 5000ms hide callback to the pending ones and a failed submit adds none;
\* blur and input events and the reset leave the other pending callbacks
\* alone; a callback leaves the pending ones only by running, when it is
\* due; and, the event loop running due callbacks, once no successful
\* submit occurs any more the pending callbacks run out.
C14_TimersFireOnce ==
    /\ [][
          /\ SuccessfulSubmit
               => timers' = timers (+) SetToBag({ResetCallback, HideCallback})
          /\ (Submit(MaxOverlap) /\ ~(\A f \in Fields : Passes(f)))
               => timers' = timers
          /\ \/ SuccessfulSubmit
             \/ timers' = timers
             \/ Aged(timers, timers')
             \/ \E t \in BagToSet(timers) :
                   /\ t.remaining = 0
                   /\ timers' = timers (-) SetToBag({t})
                   /\ ResetTimer(t) \/ HideTimer(t)
       ]_vars
    /\ <>[][~SuccessfulSubmit]_vars => <>[](timers = EmptyBag)

\* C14 witness: two submits succeeded 1000ms apart; the reset callback of
\* the first has run and the three other callbacks are still pending.
C14_Witness ==
    /\ resetRan
    /\ BagCardinality(timers) = 3
    /\ NumPending(Dom, "hide") = 2
    /\ NumPending(Dom, "reset") = 1

\* C15 as claimed: when a successful submit occurs while a callback of an
\* earlier successful submit is pending, the earlier callbacks stay pending
\* and one of them is due no later than the 2000ms reset callback of this
\* submit, so that it runs before that reset callback has.
C15_Original ==
    [][(SuccessfulSubmit /\ timers # EmptyBag)
         => /\ timers' = timers (+) SetToBag({ResetCallback, HideCallback})
            /\ \E t \in BagToSet(timers) : t.remaining <= ResetDelay
      ]_vars

\* The pending callbacks of one kind that are r ms from running.
PendingAt(kind, r) ==
    CopiesIn([kind |-> kind, remaining |-> r], timers)

\* The times a pending callback of one kind can be from running.
Remaining(kind) ==
    {k * Step : k \in 0..((IF kind = "hide" THEN HideDelay ELSE ResetDelay) \div Step)}

\* C15 amended: a successful submit leaves the callbacks of earlier submits
\* pending, and, the event loop running, a pending callback comes due and a
\* due callback runs.  A callback that runs less than 2000ms after the last
\* successful submit (one of an earlier submit, the own reset callback not
\* being due yet) leaves the banner hidden, and the fields reset if it is a
\* reset callback.  More than 2000ms after the last successful submit no
\* reset callback is pending, and a hide callback of an earlier submit that
\* runs then, after the own reset callback, changes nothing.
C15_EarlierCallbacksRun ==
    /\ [][
          /\ SuccessfulSubmit
               => timers' = timers (+) SetToBag({ResetCallback, HideCallback})
          /\ (0 <= elapsed /\ elapsed < ResetDelay)
               => /\ (\E t \in BagToSet(timers) : HideTimer(t)) => ~BannerVisible'
                  /\ (\E t \in BagToSet(timers) : ResetTimer(t))
                       => ~BannerVisible' /\ Neutral(Dom)'
          /\ (ResetDelay < elapsed /\ elapsed < HideDelay)
               => /\ NumPending(Dom, "reset") = 0
                  /\ (\E t \in BagToSet(timers) : HideTimer(t))
                       => UNCHANGED <<input, error, group, successMessage>>
       ]_vars
    /\ \A kind \in {"reset", "hide"} :
         /\ \A r \in Remaining(kind) \ {0} :
              (PendingAt(kind, r) > 0) ~> (PendingAt(kind, r - Step) > 0)
         /\ \A n \in 1..MaxOverlap :
              (PendingAt(kind, 0) = n) ~> (PendingAt(kind, 0) < n)

\* C15 witness: 3000ms after the second of two successful submits, its
\* reset callback has run and the hide callback of the first submit, which
\* was 2000ms to 3000ms earlier, is still pending with its own.
C15_Witness ==
    /\ elapsed = ResetDelay + Step
    /\ resetRan
    /\ NumPending(Dom, "hide") = 2
    /\ NumPending(Dom, "reset") = 0
    /\ \A t \in BagToSet(timers) : t.remaining > 0

\* C16: a password 'input' event that leaves a value of length >= 6 clears
\* the password error, and validatePassword on that value returns true, so
\* that the blur or submit that follows shows no password error; one that
\* leaves a shorter value changes nothing but the value; and no blur or
\* submit with a value of length >= 6 shows a password error.
C16_ShortcutAgrees ==
    [][/\ \A v \in PasswordValues :
            TypePassword(v) =>
              IF Len(v) >= 6
              THEN /\ ~Errored("password")'
                   /\ ~SlotShown("password")'
                   /\ validatePassword(Dom').ret
                   /\ ~ErroredIn(validatePassword(Dom').d, "password")
                   /\ ~ErroredIn(validateForm(Dom').d, "password")
              ELSE /\ input' = [input EXCEPT !["password"].value = v]
                   /\ UNCHANGED <<error, group, successMessage, timers>>
       /\ (/\ BlurPassword \/ SubmitPasswords
           /\ Len(input["password"].value) >= 6)
            => /\ verdict'["password"] = "pass"
               /\ ~Errored("password")'
      ]_vars

\* C16 witness: validatePassword had shown an error, an 'input' event with
\* 6 characters cleared it (the container keeps the flag the validator
\* set), and the validator has not run since.
C16_Witness ==
    /\ input["password"].value = abcdeg
    /\ verdict["password"] = "fail"
    /\ error["password"].textContent = ""
    /\ GroupError("password")

\* C17: an 'input' event on confirm-password that leaves a non-empty value
\* leaves the field as validateConfirmPassword leaves it for the current
\* two values: the error "Passwords do not match" shown (slot, styling,
\* container flag) iff they differ, the success styling otherwise, the
\* other fields untouched; one that leaves the empty value changes nothing
\* but the value, so the display of the field stays as it was.
C17_ConfirmInput ==
    [][\A v \in PasswordValues :
          TypeConfirmPassword(v) =>
            LET c == "confirmPassword" IN
            IF v # <<>>
            THEN /\ input'[c].value = v
                 /\ Errored(c)' <=> v # input["password"].value
                 /\ Errored(c)'
                      => /\ error'[c].textContent = "Passwords do not match"
                         /\ SlotShown(c)' /\ GroupError(c)'
                         /\ ~SuccessStyled(c)'
                 /\ ~Errored(c)'
                      => /\ error'[c].textContent = ""
                         /\ ~SlotShown(c)' /\ ~GroupError(c)'
                         /\ ~ErrorStyled(c)' /\ SuccessStyled(c)'
                 /\ Dom' = validateConfirmPassword(Dom').d
                 /\ \A f \in Fields \ {c} :
                      /\ input'[f] = input[f]
                      /\ error'[f] = error[f]
                      /\ group'[f] = group[f]
                 /\ UNCHANGED <<successMessage, timers>>
            ELSE /\ input' = [input EXCEPT ![c].value = <<>>]
                 /\ UNCHANGED <<error, group, successMessage, timers>>
      ]_vars

\* C17 witness: the confirm value was emptied by an 'input' event while the
\* field showed the mismatch error, which is still displayed.
C17_Witness ==
    /\ input["confirmPassword"].value = <<>>
    /\ error["confirmPassword"].textContent = "Passwords do not match"
    /\ SlotShown("confirmPassword")
    /\ ErrorStyled("confirmPassword")

\* C18: in every reachable state and for every field, the container carries
\* the 'error' flag iff the input carries the error styling.
C18_GroupFlagIffErrorStyled ==
    \A f \in Fields : GroupError(f) <=> ErrorStyled(f)

\* C19: whenever the banner is visible a 2000ms reset callback and a 5000ms
\* hide callback are pending; and, the event loop running due callbacks, a
\* visible banner is always eventually hidden.
C19_BannerEventuallyHidden ==
    /\ [](BannerVisible => /\ NumPending(Dom, "reset") >= 1
                            /\ NumPending(Dom, "hide") >= 1)
    /\ BannerVisible ~> ~BannerVisible

\* C19 witness: the banner of a second submit is visible, 1000ms old, with
\* its own two callbacks pending beside the hide callback of the first
\* submit, whose reset callback has run before.
C19_Witness ==
    /\ BannerVisible
    /\ elapsed = Step
    /\ NumPending(Dom, "reset") = 1
    /\ NumPending(Dom, "hide") = 2

\* C20: in every reachable state, the banner is not visible while the error
\* slot of any field is shown.
C20_NoBannerWithError ==
    BannerVisible => \A f \in Fields : ~SlotShown(f)

====
